---------------------------- MODULE Spec2Model ----------------------------
(***************************************************************************)
(* Model of installAuthRefresh (src/src/authTokenRefresher.ts): the axios  *)
(* request/response interceptors that renew an expired access token once,  *)
(* queue the requests that failed meanwhile and re-dispatch them.          *)
(*                                                                         *)
(* JavaScript runs the handlers on one thread; a handler is interrupted    *)
(* only where it awaits.  Each action below is one uninterrupted run of    *)
(* code: from the arrival of a response (or the settlement of an awaited   *)
(* promise) to the next await, return or throw.                            *)
(***************************************************************************)
EXTENDS Integers, Sequences, FiniteSets, TLC

\* ----------------------------------------------------------------- bounds
NumReq == 2          \* request descriptors the callers create
MaxCeiling == 2      \* largest value of the option maxRetries that is tried

\* The values of the option maxRetries (line 119) an instance is installed with.
RetryCeilings == 1..MaxCeiling

Req == 1..NumReq

\* ------------------------------------------------------------- values
NoTok == 0                       \* null / undefined token
InitTok == 1                     \* the pair stored before install
NewTok(r) == r + 1               \* the token the refresh started for r returns

NoTokens == [a |-> NoTok, r |-> NoTok]          \* getTokens() yields null
Pair(a, r) == [a |-> a, r |-> r]

NoHdr == <<"none", NoTok>>                      \* header not present
headerFormat(t) == <<"Bearer", t>>              \* line 126

\* errors: <<kind, the request whose failure or whose refresh raised it>>
NoErr == <<"none", 0>>
\* The error of request r: a session expiry (isSessionExpired is true of it
\* and it has a config), or any other failure.
ReqErr(r, kind) == <<IF kind = "expired" THEN "expired" ELSE "failed", r>>
CanceledErr == <<"canceled", 0>>           \* CanceledError('canceled')
UninstalledErr == <<"uninstalled", 0>>     \* CanceledError('auth refresher uninstalled')
LogoutErr == <<"logout", 0>>               \* the rejection of logout()
RefreshErr(r) == <<"refresh", r>>          \* rejection of refresh()
TimeoutErr(r) == <<"timeout", r>>          \* RefreshTimeoutError
ContractErr(r) == <<"contract", r>>        \* 'Invalid refresh response - no access token'

Res(k, e) == [k |-> k, e |-> e]

VARIABLES
  installed,            \* the interceptors are registered on the client
  bootLoaded,           \* the initial getTokens() of line 130 has resolved
  refreshInFlight,      \* 0 (null) or the request whose handler started the refresh
  refreshSubscribers,   \* the pending queue: sequence of requests
  refreshAttemptCount,
  currentAccessToken,
  defaultHeader,        \* api.defaults.headers.common[headerName]
  storage,              \* the pair held by the external storage
  cfg,                  \* per request: the config (descriptor) and its markers
  fl,                   \* per request: its dispatch through the client
  h,                    \* per request: the error handler suspended at an await
  op,                   \* per request: the refresh operation its handler started
  entry,                \* per request: the promise of its pending entry
  out,                  \* per request: what its handler returned or threw
  maxRetries,           \* the option maxRetries of this instance
  terminalErrors,       \* the kinds of error the option isRefreshFailureTerminal holds of
  viaClient,            \* the option refresh sends its request through this client,
                        \* with skipAuthRefresh (README, lines 30-35)
  notified,             \* per request: the calls of onRefreshed / onRefreshFailed
                        \* its handler made
  g,                    \* history, per queued request: the refresh in flight
                        \* when its failure arrived, else 0
  loss                  \* history: the last terminal auth loss

vars == <<installed, bootLoaded, refreshInFlight, refreshSubscribers,
          refreshAttemptCount, currentAccessToken, defaultHeader, storage,
          cfg, fl, h, op, entry, out, maxRetries, terminalErrors, viaClient,
          notified, g, loss>>

\* The options, which no step changes.
options == <<maxRetries, terminalErrors, viaClient>>

InQueue(r, q) == \E i \in 1..Len(q) : q[i] = r

\* The calls of the external refresh function made so far, and the refresh
\* operations that are started and not settled.
RefreshCalls == Cardinality({r \in Req : op[r].st # "none"})
Unsettled == {r \in Req : op[r].st = "pending"}

\* ------------------------------------------------------------------ Init
NewCfg == [skipAuthRefresh |-> FALSE, hdr |-> NoHdr, sentAccessToken |-> NoTok,
           authTriedCurrent |-> FALSE, authRefreshRetried |-> FALSE,
           aborted |-> FALSE]

\* A handler: where it is suspended, its locals storedTokens and error, and
\* (history, kept while it reads the stored tokens) the state in which the
\* failure arrived: burst, the number of refresh calls made until then if no
\* refresh was in flight and one could be started, else -1; during, the
\* refresh in flight then, else 0; afterLoss, a terminal loss had happened;
\* afterFailure, a non-terminal refresh failure had been handled (kept until
\* the handler's own refresh settles); and served, a request of the same
\* burst has started a refresh since.
Handler(pc, stored, err) ==
  [pc |-> pc, stored |-> stored, err |-> err,
   burst |-> -1, during |-> 0, afterLoss |-> FALSE, afterFailure |-> FALSE,
   served |-> FALSE]

NoHandler == Handler("none", NoTokens, NoErr)
\* A refresh operation: its state, its result, and via, its request passes
\* the interceptors of this client.
NoOp == [st |-> "none", tok |-> NoTokens, e |-> NoErr, via |-> FALSE]

\* The completion callbacks a handler has called: how many times, and the
\* last one with its argument (onRefreshed(updatedTokens), line 336;
\* onRefreshFailed(e), lines 221 and 352).
NoCalls == [n |-> 0, k |-> "none", tok |-> NoTokens, e |-> NoErr]
onRefreshed(c, updatedTokens) ==
  [n |-> c.n + 1, k |-> "refreshed", tok |-> updatedTokens, e |-> NoErr]
onRefreshFailed(c, e) ==
  [n |-> c.n + 1, k |-> "failed", tok |-> NoTokens, e |-> e]

\* The predicates isRefreshFailureTerminal an instance is installed with,
\* each given by the kinds of refresh error it holds of.
TerminalPredicates == {{"refresh"}, {"timeout", "contract"}}

\* The state after install, whatever the option refresh is.
Installed ==
  /\ installed = TRUE
  /\ bootLoaded = FALSE
  /\ refreshInFlight = 0
  /\ refreshSubscribers = <<>>
  /\ refreshAttemptCount = 0
  /\ currentAccessToken = NoTok
  /\ defaultHeader = NoHdr
  /\ storage \in {Pair(InitTok, InitTok), Pair(InitTok, NoTok), NoTokens}
  /\ cfg = [r \in Req |-> NewCfg]
  /\ fl = [r \in Req |-> [st |-> "new", sink |-> "caller", hooked |-> FALSE, n |-> 0]]
  /\ h = [r \in Req |-> NoHandler]
  /\ op = [r \in Req |-> NoOp]
  /\ entry = [r \in Req |-> Res("none", NoErr)]
  /\ out = [r \in Req |-> Res("pending", NoErr)]
  /\ maxRetries \in RetryCeilings
  /\ terminalErrors \in TerminalPredicates
  /\ notified = [r \in Req |-> NoCalls]
  /\ g = [r \in Req |-> 0]
  /\ loss = [on |-> FALSE, pre |-> {}]

\* The option refresh calls the token endpoint through a client of its own.
Init == Installed /\ viaClient = FALSE

\* ------------------------------------------------------- pure helpers

\* Request interceptor without the opt-out test of line 146.
RequestInterceptorForAll(c, cur) ==
  IF c.hdr # NoHdr
  THEN IF cur # NoTok /\ c.hdr = headerFormat(cur)
       THEN [c EXCEPT !.sentAccessToken = cur]
       ELSE c
  ELSE IF cur # NoTok
       THEN [c EXCEPT !.hdr = headerFormat(cur), !.sentAccessToken = cur]
       ELSE c

\* Request interceptor, lines 145-162: stamp the outgoing config.
RequestInterceptor(c, cur) ==
  IF c.skipAuthRefresh THEN c
  ELSE IF c.hdr # NoHdr
       THEN IF cur # NoTok /\ c.hdr = headerFormat(cur)
            THEN [c EXCEPT !.sentAccessToken = cur]
            ELSE c
       ELSE IF cur # NoTok
            THEN [c EXCEPT !.hdr = headerFormat(cur), !.sentAccessToken = cur]
            ELSE c

\* api.request(config): the request interceptor runs if it is registered.
Dispatch(c, inst, cur) == IF inst THEN RequestInterceptor(c, cur) ELSE c

\* StaleToken without the test of authTriedCurrent (line 265).
StaleTokenUnguarded(c, cur) ==
  /\ cur # NoTok
  /\ \/ c.sentAccessToken # NoTok /\ c.sentAccessToken # cur
     \/ c.hdr # NoHdr /\ c.hdr # headerFormat(cur)

\* StaleToken with the negation of authTriedCurrent missing.
StaleTokenTriedOnly(c, cur) ==
  /\ cur # NoTok
  /\ c.authTriedCurrent
  /\ \/ c.sentAccessToken # NoTok /\ c.sentAccessToken # cur
     \/ c.hdr # NoHdr /\ c.hdr # headerFormat(cur)

\* Lines 261-274: the condition of the stale-token fast path.
StaleToken(c, cur) ==
  /\ cur # NoTok
  /\ ~c.authTriedCurrent
  /\ \/ c.sentAccessToken # NoTok /\ c.sentAccessToken # cur
     \/ c.hdr # NoHdr /\ c.hdr # headerFormat(cur)

\* Faulty variants of some operators stand before them; each is one that a
\* property below is violated by when it stands in for the operator.
\* Branch without the loop guard of lines 283-286.
BranchWithoutGuard(c, kind, cur) ==
  IF kind = "noconfig" THEN "reset"
  ELSE IF c.skipAuthRefresh THEN "reset"
  ELSE IF kind # "expired" THEN "reset"
  ELSE IF StaleToken(c, cur) THEN "current"
  ELSE "renew"

\* NoRefreshToken that only sees an absent pair.
NoStoredTokens(stored) == stored = NoTokens

\* CeilingReached with > for >=.
CeilingExceeded(count, ceiling) == count > ceiling

\* drainFailure that rejects the head of the queue only.
DrainFailureHead(ent, q, e) ==
  [x \in Req |-> IF Len(q) > 0 /\ x = q[1] THEN Res("err", e) ELSE ent[x]]

\* Lines 232-288: which way the response error handler goes before its
\* first await.  kind is what the failure is: "noconfig" (error.config is
\* undefined), "expired" (isSessionExpired is true), "other" (it is false).
Branch(c, kind, cur) ==
  IF kind = "noconfig" THEN "reset"
  ELSE IF c.skipAuthRefresh THEN "reset"
  ELSE IF kind # "expired" THEN "reset"
  ELSE IF StaleToken(c, cur) THEN "current"
  ELSE IF c.authRefreshRetried THEN "guard"
  ELSE "renew"

\* Line 300: !storedTokens?.refreshToken
NoRefreshToken(stored) == stored.r = NoTok

\* CeilingReached with the test of line 315 missing.
CeilingOff(count, ceiling) == FALSE

\* Line 315: refreshAttemptCount >= maxRetries
CeilingReached(count, ceiling) == count >= ceiling

\* drainFailure, lines 181-186: the promise of every queued entry.
DrainFailure(ent, q, e) ==
  [x \in Req |-> IF InQueue(x, q) THEN Res("err", e) ELSE ent[x]]

\* drainSuccess, lines 164-179: the entries, the configs and the dispatches.
DrainSuccessEntry(ent, q, c) ==
  [x \in Req |-> IF ~InQueue(x, q) THEN ent[x]
                 ELSE IF c[x].aborted THEN Res("err", CanceledErr)
                 ELSE Res("flying", NoErr)]

DrainSuccessCfg(c, q, newToken, inst, cur) ==
  [x \in Req |-> IF InQueue(x, q) /\ ~c[x].aborted
                 THEN Dispatch([c[x] EXCEPT !.hdr = headerFormat(newToken),
                                            !.sentAccessToken = newToken],
                               inst, cur)
                 ELSE c[x]]

\* DrainSuccessFl without the test of line 169.
DrainSuccessFlAborted(f, q, c, inst) ==
  [x \in Req |-> IF InQueue(x, q)
                 THEN [st |-> "sent", sink |-> "entry", hooked |-> inst,
                       n |-> f[x].n + 1]
                 ELSE f[x]]

DrainSuccessFl(f, q, c, inst) ==
  [x \in Req |-> IF InQueue(x, q) /\ ~c[x].aborted
                 THEN [st |-> "sent", sink |-> "entry", hooked |-> inst,
                       n |-> f[x].n + 1]
                 ELSE f[x]]

\* MergeTokens that persists the response alone.
MergeTokensResponseOnly(stored, refreshed) == refreshed

\* Line 334: { ...storedTokens, ...refreshed }; a field the response omits
\* is NoTok here and leaves the stored one.
MergeTokens(stored, refreshed) ==
  [a |-> IF refreshed.a # NoTok THEN refreshed.a ELSE stored.a,
   r |-> IF refreshed.r # NoTok THEN refreshed.r ELSE stored.r]

\* setAuthHeaders, lines 380-401: the value of the default header afterwards.
SetAuthHeaders(token) == IF token # NoTok THEN headerFormat(token) ELSE NoHdr

\* queue(config), lines 188-195.
Queue(q, r) == Append(q, r)

\* What getTokens() yields to the handler: the stored pair, or nothing if
\* the read fails (lines 293-298).
StoredTokens(ok) == IF ok THEN storage ELSE NoTokens

\* A handler that has returned or thrown keeps no locals; a refresh
\* operation whose result has been consumed keeps none either.
Finished(pc) == Handler(pc, NoTokens, NoErr)
OpDone == [st |-> "done", tok |-> NoTokens, e |-> NoErr, via |-> FALSE]

\* What the caller of request r has got: what the handler threw or returned,
\* which is the promise of the pending entry where the handler returned that
\* (lines 312 and 356).
Outcome(r) == IF h[r].pc = "joined" /\ out[r].k = "pending"
              THEN (IF entry[r].k \in {"ok", "err"} THEN entry[r]
                    ELSE Res("pending", NoErr))
              ELSE out[r]

\* The result of a dispatch goes to whoever issued it: the caller, or the
\* pending entry drainSuccess re-dispatched (line 176).
OutAfter(r, res) == IF fl[r].sink = "caller" THEN [out EXCEPT ![r] = res] ELSE out
EntryAfter(r, res) == IF fl[r].sink = "entry" THEN [entry EXCEPT ![r] = res] ELSE entry

\* isRefreshFailureTerminal with its result negated.
TerminalInverted(e) == e[1] \notin terminalErrors

\* Line 345: the caller's predicate on the error of a failed refresh.
isRefreshFailureTerminal(e) == e[1] \in terminalErrors

\* The history of the queued requests once the queue q is drained.
Drained(q) == [x \in Req |-> IF InQueue(x, q) THEN 0 ELSE g[x]]

\* A terminal auth loss has happened.
LostEver == \E r \in Req : h[r].pc \in {"logout", "lost"}

\* terminalAuthLost, lines 216-223, up to the await of logout; the handler
\* of r detected the loss, q and ent are the queue and the entries then.
TerminalAuthLost(r, e, q, ent) ==
  /\ refreshAttemptCount' = 0
  /\ currentAccessToken' = NoTok
  /\ entry' = DrainFailure(ent, q, e)
  /\ refreshSubscribers' = <<>>
  /\ notified' = [notified EXCEPT ![r] = onRefreshFailed(@, e)]
  /\ g' = Drained(q)
  /\ defaultHeader' = NoHdr
  /\ h' = [h EXCEPT ![r] = Handler("logout", NoTokens, e)]
  /\ loss' = [on |-> TRUE,
              pre |-> {x \in Req \ {r} : op[x].st \in {"pending", "ok", "err"}}]

\* --------------------------------------------------------------- actions

\* Lines 128-139: the initial load of the cached access token resolves (if
\* it rejects instead, line 139 swallows the error and nothing changes).
InitialLoad ==
  /\ ~bootLoaded
  /\ bootLoaded' = TRUE
  /\ currentAccessToken' = storage.a
  /\ UNCHANGED <<installed, refreshInFlight, refreshSubscribers, refreshAttemptCount,
                 defaultHeader, storage, cfg, fl, h, op, entry, out, options, notified,
                 g, loss>>

\* A caller sends request r through the client.
Send(r, skip, hdr) ==
  /\ fl[r].st = "new"
  /\ \A x \in Req : x < r => fl[x].st # "new"
  /\ cfg' = [cfg EXCEPT ![r] = Dispatch([NewCfg EXCEPT !.skipAuthRefresh = skip,
                                                         !.hdr = hdr],
                                         installed, currentAccessToken)]
  /\ fl' = [fl EXCEPT ![r] = [st |-> "sent", sink |-> "caller",
                               hooked |-> installed, n |-> 1]]
  /\ UNCHANGED <<installed, bootLoaded, refreshInFlight, refreshSubscribers,
                 refreshAttemptCount, currentAccessToken, defaultHeader, storage,
                 h, op, entry, out, options, notified, g, loss>>

\* The caller's cancellation signal fires while the request is queued
\* (config.signal is read at line 169 only).
Abort(r) ==
  /\ entry[r].k = "queued"
  /\ ~cfg[r].aborted
  /\ cfg' = [cfg EXCEPT ![r].aborted = TRUE]
  /\ UNCHANGED <<installed, bootLoaded, refreshInFlight, refreshSubscribers,
                 refreshAttemptCount, currentAccessToken, defaultHeader, storage,
                 fl, h, op, entry, out, options, notified, g, loss>>

\* ResponseOk without line 229.
ResponseOkKeepsCount(r) ==
  /\ fl[r].st = "sent"
  /\ fl' = [fl EXCEPT ![r].st = "off"]
  /\ out' = OutAfter(r, Res("ok", NoErr))
  /\ entry' = EntryAfter(r, Res("ok", NoErr))
  /\ UNCHANGED <<installed, bootLoaded, refreshInFlight, refreshSubscribers,
                 refreshAttemptCount, currentAccessToken, defaultHeader, storage,
                 cfg, h, op, options, notified, g, loss>>

\* Lines 228-231: a successful response (the interceptor runs if it was
\* registered when the request was dispatched).
ResponseOk(r) ==
  /\ fl[r].st = "sent"
  /\ fl' = [fl EXCEPT ![r].st = "off"]
  /\ refreshAttemptCount' = IF fl[r].hooked THEN 0 ELSE refreshAttemptCount
  /\ out' = OutAfter(r, Res("ok", NoErr))
  /\ entry' = EntryAfter(r, Res("ok", NoErr))
  /\ UNCHANGED <<installed, bootLoaded, refreshInFlight, refreshSubscribers,
                 currentAccessToken, defaultHeader, storage, cfg, h, op,
                 options, notified, g, loss>>

\* A failure of a request that was dispatched with no interceptor registered.
FailUnhooked(r) ==
  /\ fl[r].st = "sent"
  /\ ~fl[r].hooked
  /\ fl' = [fl EXCEPT ![r].st = "off"]
  /\ out' = OutAfter(r, Res("err", ReqErr(r, "unhooked")))
  /\ entry' = EntryAfter(r, Res("err", ReqErr(r, "unhooked")))
  /\ UNCHANGED <<installed, bootLoaded, refreshInFlight, refreshSubscribers,
                 refreshAttemptCount, currentAccessToken, defaultHeader, storage,
                 cfg, h, op, options, notified, g, loss>>

\* FailPassThrough without the resets of lines 236, 242 and 250.
FailPassThroughKeepsCount(r, kind) ==
  /\ fl[r].st = "sent"
  /\ fl[r].hooked
  /\ Branch(cfg[r], kind, currentAccessToken) = "reset"
  /\ fl' = [fl EXCEPT ![r].st = "off"]
  /\ out' = OutAfter(r, Res("err", ReqErr(r, kind)))
  /\ entry' = EntryAfter(r, Res("err", ReqErr(r, kind)))
  /\ UNCHANGED <<installed, bootLoaded, refreshInFlight, refreshSubscribers,
                 refreshAttemptCount, currentAccessToken, defaultHeader, storage,
                 cfg, h, op, options, notified, g, loss>>

\* Lines 235-252: no config, skipAuthRefresh, or not a session expiry.
FailPassThrough(r, kind) ==
  /\ fl[r].st = "sent"
  /\ fl[r].hooked
  /\ Branch(cfg[r], kind, currentAccessToken) = "reset"
  /\ fl' = [fl EXCEPT ![r].st = "off"]
  /\ refreshAttemptCount' = 0
  /\ out' = OutAfter(r, Res("err", ReqErr(r, kind)))
  /\ entry' = EntryAfter(r, Res("err", ReqErr(r, kind)))
  /\ UNCHANGED <<installed, bootLoaded, refreshInFlight, refreshSubscribers,
                 currentAccessToken, defaultHeader, storage, cfg, h, op,
                 options, notified, g, loss>>

\* FailStaleRetry that sets the marker of line 288 as well.
FailStaleRetryMarksRetried(r) ==
  /\ fl[r].st = "sent"
  /\ fl[r].hooked
  /\ Branch(cfg[r], "expired", currentAccessToken) = "current"
  /\ cfg' = [cfg EXCEPT ![r] =
               Dispatch([cfg[r] EXCEPT !.authTriedCurrent = TRUE,
                                       !.authRefreshRetried = TRUE,
                                       !.hdr = headerFormat(currentAccessToken),
                                       !.sentAccessToken = currentAccessToken],
                        installed, currentAccessToken)]
  /\ fl' = [fl EXCEPT ![r].hooked = installed, ![r].n = @ + 1]
  /\ UNCHANGED <<installed, bootLoaded, refreshInFlight, refreshSubscribers,
                 refreshAttemptCount, currentAccessToken, defaultHeader, storage,
                 h, op, entry, out, options, notified, g, loss>>

\* Lines 254-280: the stale-token fast path.
FailStaleRetry(r) ==
  /\ fl[r].st = "sent"
  /\ fl[r].hooked
  /\ Branch(cfg[r], "expired", currentAccessToken) = "current"
  /\ cfg' = [cfg EXCEPT ![r] =
               Dispatch([cfg[r] EXCEPT !.authTriedCurrent = TRUE,
                                       !.hdr = headerFormat(currentAccessToken),
                                       !.sentAccessToken = currentAccessToken],
                        installed, currentAccessToken)]
  /\ fl' = [fl EXCEPT ![r].hooked = installed, ![r].n = @ + 1]
  /\ UNCHANGED <<installed, bootLoaded, refreshInFlight, refreshSubscribers,
                 refreshAttemptCount, currentAccessToken, defaultHeader, storage,
                 h, op, entry, out, options, notified, g, loss>>

\* Lines 283-287: the per-request loop guard.
FailLoopGuard(r) ==
  /\ fl[r].st = "sent"
  /\ fl[r].hooked
  /\ Branch(cfg[r], "expired", currentAccessToken) = "guard"
  /\ fl' = [fl EXCEPT ![r].st = "off"]
  /\ out' = OutAfter(r, Res("err", ReqErr(r, "expired")))
  /\ entry' = EntryAfter(r, Res("err", ReqErr(r, "expired")))
  /\ UNCHANGED <<installed, bootLoaded, refreshInFlight, refreshSubscribers,
                 refreshAttemptCount, currentAccessToken, defaultHeader, storage,
                 cfg, h, op, options, notified, g, loss>>

\* Lines 288-295: mark the request and start reading the stored tokens.
FailExpired(r) ==
  /\ fl[r].st = "sent"
  /\ fl[r].hooked
  /\ Branch(cfg[r], "expired", currentAccessToken) = "renew"
  /\ cfg' = [cfg EXCEPT ![r].authRefreshRetried = TRUE]
  /\ fl' = [fl EXCEPT ![r].st = "off"]
  /\ h' = [h EXCEPT ![r] =
             [pc |-> "getTokens", stored |-> NoTokens, err |-> ReqErr(r, "expired"),
              burst |-> IF /\ installed
                           /\ refreshInFlight = 0
                           /\ Unsettled = {}
                           /\ ~CeilingReached(refreshAttemptCount, maxRetries)
                           /\ ~NoRefreshToken(storage)
                        THEN RefreshCalls ELSE -1,
              during |-> IF installed /\ refreshInFlight \in Unsettled
                         THEN refreshInFlight ELSE 0,
              afterLoss |-> LostEver,
              afterFailure |-> \E x \in Req : h[x].pc = "threw",
              served |-> FALSE]]
  /\ UNCHANGED <<installed, bootLoaded, refreshInFlight, refreshSubscribers,
                 refreshAttemptCount, currentAccessToken, defaultHeader, storage,
                 op, entry, out, options, notified, g, loss>>

\* Lines 295-305: the read settles and yields no refresh token.
GetTokensNoRefreshToken(r, ok) ==
  /\ h[r].pc = "getTokens"
  /\ NoRefreshToken(StoredTokens(ok))
  /\ TerminalAuthLost(r, h[r].err, refreshSubscribers, entry)
  /\ UNCHANGED <<installed, bootLoaded, refreshInFlight, storage, cfg, fl, op,
                 out, options>>

\* Lines 307-313: a refresh is in flight; the handler returns the queued promise.
GetTokensJoin(r) ==
  /\ h[r].pc = "getTokens"
  /\ ~NoRefreshToken(StoredTokens(TRUE))
  /\ refreshInFlight # 0
  /\ refreshSubscribers' = Queue(refreshSubscribers, r)
  /\ entry' = [entry EXCEPT ![r] = Res("queued", NoErr)]
  /\ h' = [h EXCEPT ![r] = Finished("joined")]
  /\ g' = [g EXCEPT ![r] = h[r].during]
  /\ UNCHANGED <<installed, bootLoaded, refreshInFlight, refreshAttemptCount,
                 currentAccessToken, defaultHeader, storage, cfg, fl, op, out,
                 options, notified, loss>>

\* Lines 307-320: no refresh in flight and the retry ceiling is reached.
GetTokensMaxRetries(r) ==
  /\ h[r].pc = "getTokens"
  /\ ~NoRefreshToken(StoredTokens(TRUE))
  /\ refreshInFlight = 0
  /\ CeilingReached(refreshAttemptCount, maxRetries)
  /\ TerminalAuthLost(r, h[r].err, Queue(refreshSubscribers, r),
                      [entry EXCEPT ![r] = Res("queued", NoErr)])
  /\ UNCHANGED <<installed, bootLoaded, refreshInFlight, storage, cfg, fl, op,
                 out, options>>

\* Lines 307-323 and getOrStartRefresh, lines 197-214: queue the request and
\* start the refresh; the handler awaits it.
GetTokensStartRefresh(r) ==
  /\ h[r].pc = "getTokens"
  /\ ~NoRefreshToken(StoredTokens(TRUE))
  /\ refreshInFlight = 0
  /\ ~CeilingReached(refreshAttemptCount, maxRetries)
  /\ refreshSubscribers' = Queue(refreshSubscribers, r)
  /\ entry' = [entry EXCEPT ![r] = Res("queued", NoErr)]
  /\ refreshAttemptCount' = refreshAttemptCount + 1
  /\ op' = [op EXCEPT ![r].st = "pending", ![r].via = viaClient /\ installed]
  /\ refreshInFlight' = r
  /\ h' = [x \in Req |->
             IF x = r
             THEN [Handler("refresh", StoredTokens(TRUE), h[r].err)
                     EXCEPT !.afterFailure = h[r].afterFailure]
             ELSE IF h[x].pc = "getTokens" /\ h[r].burst >= 0
                     /\ h[x].burst = h[r].burst
                  THEN [h[x] EXCEPT !.served = TRUE]
                  ELSE h[x]]
  /\ g' = [g EXCEPT ![r] = h[r].during]
  /\ UNCHANGED <<installed, bootLoaded, currentAccessToken, defaultHeader,
                 storage, cfg, fl, out, options, notified, loss>>

\* RefreshResults of a refresh call that never returns, withTimeout having
\* no timer.
RefreshResultsUntimed(r) == {}

\* What the refresh started for r can settle with: the pair refresh()
\* resolves with (rotated refresh token, refresh token omitted, or no access
\* token), its rejection, or the timeout of withTimeout (lines 78-93).
RefreshResults(r) ==
  { [st |-> "ok", tok |-> Pair(NewTok(r), NewTok(r)), e |-> NoErr],
    [st |-> "ok", tok |-> Pair(NewTok(r), NoTok), e |-> NoErr],
    [st |-> "ok", tok |-> NoTokens, e |-> NoErr],
    [st |-> "err", tok |-> NoTokens, e |-> RefreshErr(r)],
    [st |-> "err", tok |-> NoTokens, e |-> TimeoutErr(r)] }

\* The operation o once it has settled with res.
Settled(o, res) == [st |-> res.st, tok |-> res.tok, e |-> res.e, via |-> o.via]

\* The attempt counter once the refresh of o has settled with res.  Where
\* the request of refresh() passed the interceptors of this client, its
\* response reset the counter before refresh() settled: line 229 if it
\* succeeded, line 242 if it failed (the request has skipAuthRefresh); a
\* timeout comes from the timer, with no response.
CountAfterRefresh(o, res, count) ==
  IF o.via /\ res.e[1] # "timeout" THEN 0 ELSE count

\* RefreshSettle without the finally of lines 207-209.
RefreshSettleKeepsInFlight(r, res) ==
  /\ op[r].st = "pending"
  /\ op' = [op EXCEPT ![r] = Settled(op[r], res)]
  /\ refreshAttemptCount' = CountAfterRefresh(op[r], res, refreshAttemptCount)
  /\ h' = [h EXCEPT ![r].afterFailure = FALSE]
  /\ UNCHANGED <<installed, bootLoaded, refreshInFlight, refreshSubscribers,
                 currentAccessToken, defaultHeader, storage,
                 cfg, fl, entry, out, options, notified, g, loss>>

\* Lines 204-210: the refresh operation settles; its finally clears the
\* in-flight reference, and the awaiting handler resumes in a later job.
RefreshSettle(r, res) ==
  /\ op[r].st = "pending"
  /\ op' = [op EXCEPT ![r] = Settled(op[r], res)]
  /\ refreshAttemptCount' = CountAfterRefresh(op[r], res, refreshAttemptCount)
  /\ refreshInFlight' = 0
  /\ h' = [h EXCEPT ![r].afterFailure = FALSE]
  /\ UNCHANGED <<installed, bootLoaded, refreshSubscribers,
                 currentAccessToken, defaultHeader, storage, cfg, fl, entry,
                 out, options, notified, g, loss>>

\* RefreshResumeOk without the test of line 326.
RefreshResumeOkUnchecked(r) ==
  /\ h[r].pc = "refresh"
  /\ op[r].st = "ok"
  /\ defaultHeader' = SetAuthHeaders(op[r].tok.a)
  /\ currentAccessToken' = op[r].tok.a
  /\ h' = [h EXCEPT ![r].pc = "setTokens"]
  /\ loss' = IF r \in loss.pre THEN loss ELSE [on |-> FALSE, pre |-> {}]
  /\ UNCHANGED <<installed, bootLoaded, refreshInFlight, refreshSubscribers,
                 refreshAttemptCount, storage, cfg, fl, op, entry, out,
                 options, notified, g>>

\* Lines 323-335: the refresh resolved with an access token.
RefreshResumeOk(r) ==
  /\ h[r].pc = "refresh"
  /\ op[r].st = "ok"
  /\ op[r].tok.a # NoTok
  /\ defaultHeader' = SetAuthHeaders(op[r].tok.a)
  /\ currentAccessToken' = op[r].tok.a
  /\ h' = [h EXCEPT ![r].pc = "setTokens"]
  /\ loss' = IF r \in loss.pre THEN loss ELSE [on |-> FALSE, pre |-> {}]
  /\ UNCHANGED <<installed, bootLoaded, refreshInFlight, refreshSubscribers,
                 refreshAttemptCount, storage, cfg, fl, op, entry, out,
                 options, notified, g>>

\* CaughtErrors that hands the catch a generic error whatever the failure.
CaughtErrorsGeneric(r) ==
  IF op[r].st = "err" THEN {RefreshErr(r)}
  ELSE IF op[r].st = "ok" /\ op[r].tok.a = NoTok
       THEN {ContractErr(r)}
       ELSE {}

\* The error the catch of line 343 receives, if any: the operation's
\* error, or the one thrown at line 326.
CaughtErrors(r) ==
  IF op[r].st = "err" THEN {op[r].e}
  ELSE IF op[r].st = "ok" /\ op[r].tok.a = NoTok
       THEN {ContractErr(r)}
       ELSE {}

\* Lines 343-349: the refresh failed and isRefreshFailureTerminal(e), the
\* caller's predicate, is true.
RefreshResumeTerminal(r, e) ==
  /\ h[r].pc = "refresh"
  /\ e \in CaughtErrors(r)
  /\ isRefreshFailureTerminal(e)
  /\ TerminalAuthLost(r, e, refreshSubscribers, entry)
  /\ op' = [op EXCEPT ![r] = OpDone]
  /\ UNCHANGED <<installed, bootLoaded, refreshInFlight, storage, cfg, fl,
                 out, options>>

\* RefreshResumeFailed whose drainFailure lacks line 185.
RefreshResumeFailedKeepsQueue(r, e) ==
  /\ h[r].pc = "refresh"
  /\ e \in CaughtErrors(r)
  /\ ~isRefreshFailureTerminal(e)
  /\ entry' = DrainFailure(entry, refreshSubscribers, e)
  /\ notified' = [notified EXCEPT ![r] = onRefreshFailed(@, e)]
  /\ h' = [h EXCEPT ![r] = Finished("threw")]
  /\ out' = [out EXCEPT ![r] = Res("err", e)]
  /\ op' = [op EXCEPT ![r] = OpDone]
  /\ UNCHANGED <<installed, bootLoaded, refreshInFlight, refreshAttemptCount,
                 currentAccessToken, defaultHeader, storage, cfg, fl,
                 options, loss, refreshSubscribers, g>>

\* Lines 350-353: the refresh failed and isRefreshFailureTerminal(e) is false.
RefreshResumeFailed(r, e) ==
  /\ h[r].pc = "refresh"
  /\ e \in CaughtErrors(r)
  /\ ~isRefreshFailureTerminal(e)
  /\ entry' = DrainFailure(entry, refreshSubscribers, e)
  /\ g' = Drained(refreshSubscribers)
  /\ notified' = [notified EXCEPT ![r] = onRefreshFailed(@, e)]
  /\ refreshSubscribers' = <<>>
  /\ h' = [h EXCEPT ![r] = Finished("threw")]
  /\ out' = [out EXCEPT ![r] = Res("err", e)]
  /\ op' = [op EXCEPT ![r] = OpDone]
  /\ UNCHANGED <<installed, bootLoaded, refreshInFlight, refreshAttemptCount,
                 currentAccessToken, defaultHeader, storage, cfg, fl,
                 options, loss>>

\* Line 341 placed inside the try of line 332, after setTokens.
CountAfterSetTokensInTry(count, ok) == IF ok THEN 0 ELSE count

\* Line 341: the counter once setTokens has settled, resolved (ok) or
\* rejected; the catch of line 338 only logs, so line 341 runs either way.
CountAfterSetTokens(count, ok) == 0

\* Lines 335-342 and 356: setTokens settles (if it rejects, line 337 is
\* skipped and line 338 swallows the error); reset the counter, drain the
\* queue with the new token and return the queued promise.
SetTokensDone(r, ok) ==
  /\ h[r].pc = "setTokens"
  /\ storage' = IF ok THEN MergeTokens(h[r].stored, op[r].tok) ELSE storage
  /\ notified' = IF ok
                 THEN [notified EXCEPT ![r] =
                         onRefreshed(@, MergeTokens(h[r].stored, op[r].tok))]
                 ELSE notified
  /\ refreshAttemptCount' = CountAfterSetTokens(refreshAttemptCount, ok)
  /\ entry' = DrainSuccessEntry(entry, refreshSubscribers, cfg)
  /\ cfg' = DrainSuccessCfg(cfg, refreshSubscribers, op[r].tok.a, installed,
                            currentAccessToken)
  /\ fl' = DrainSuccessFl(fl, refreshSubscribers, cfg, installed)
  /\ g' = Drained(refreshSubscribers)
  /\ refreshSubscribers' = <<>>
  /\ h' = [h EXCEPT ![r] = Finished("joined")]
  /\ op' = [op EXCEPT ![r] = OpDone]
  /\ UNCHANGED <<installed, bootLoaded, refreshInFlight, currentAccessToken,
                 defaultHeader, out, options, loss>>

\* terminalAuthLost with the rejection of logout left uncaught.
LogoutUncaught(originalError, ok) ==
  IF ok THEN Res("err", originalError) ELSE Res("err", LogoutErr)

\* Lines 223-224: what terminalAuthLost throws once logout has settled, ok
\* telling whether it resolved; .catch(() => {}) swallows its rejection.
LogoutSettled(originalError, ok) == Res("err", originalError)

\* Lines 223-224: logout settled, resolved (ok) or rejected; rethrow.
LogoutDone(r, ok) ==
  /\ h[r].pc = "logout"
  /\ h' = [h EXCEPT ![r] = Finished("lost")]
  /\ out' = [out EXCEPT ![r] = LogoutSettled(h[r].err, ok)]
  /\ UNCHANGED <<installed, bootLoaded, refreshInFlight, refreshSubscribers,
                 refreshAttemptCount, currentAccessToken, defaultHeader, storage,
                 cfg, fl, op, entry, options, notified, g, loss>>

\* uninstall without line 371.
UninstallKeepsInFlight ==
  /\ installed
  /\ installed' = FALSE
  /\ entry' = IF Len(refreshSubscribers) # 0
              THEN DrainFailure(entry, refreshSubscribers, UninstalledErr)
              ELSE entry
  /\ g' = Drained(refreshSubscribers)
  /\ refreshSubscribers' = <<>>
  /\ UNCHANGED <<bootLoaded, refreshInFlight, refreshAttemptCount,
                 currentAccessToken, defaultHeader, storage, cfg, fl, h, op, out,
                 options, notified, loss>>

\* uninstall, lines 360-373.
Uninstall ==
  /\ installed
  /\ installed' = FALSE
  /\ entry' = IF Len(refreshSubscribers) # 0
              THEN DrainFailure(entry, refreshSubscribers, UninstalledErr)
              ELSE entry
  /\ g' = Drained(refreshSubscribers)
  /\ refreshSubscribers' = <<>>
  /\ refreshInFlight' = 0
  /\ UNCHANGED <<bootLoaded, refreshAttemptCount, currentAccessToken,
                 defaultHeader, storage, cfg, fl, h, op, out, options, notified, loss>>

\* What a caller sets on a request itself: skipAuthRefresh, or a header.
CallerConfigs ==
  { [skip |-> TRUE, hdr |-> NoHdr],
    [skip |-> FALSE, hdr |-> NoHdr],
    [skip |-> FALSE, hdr |-> headerFormat(InitTok)] }

FailureKinds == {"noconfig", "expired", "other"}

Next ==
  \/ InitialLoad
  \/ \E r \in Req, c \in CallerConfigs : Send(r, c.skip, c.hdr)
  \/ \E r \in Req : Abort(r)
  \/ \E r \in Req : ResponseOk(r)
  \/ \E r \in Req : FailUnhooked(r)
  \/ \E r \in Req, kind \in FailureKinds : FailPassThrough(r, kind)
  \/ \E r \in Req : FailStaleRetry(r)
  \/ \E r \in Req : FailLoopGuard(r)
  \/ \E r \in Req : FailExpired(r)
  \/ \E r \in Req, ok \in BOOLEAN : GetTokensNoRefreshToken(r, ok)
  \/ \E r \in Req : GetTokensJoin(r)
  \/ \E r \in Req : GetTokensMaxRetries(r)
  \/ \E r \in Req : GetTokensStartRefresh(r)
  \/ \E r \in Req : \E res \in RefreshResults(r) : RefreshSettle(r, res)
  \/ \E r \in Req : RefreshResumeOk(r)
  \/ \E r \in Req : \E e \in CaughtErrors(r) : RefreshResumeTerminal(r, e)
  \/ \E r \in Req : \E e \in CaughtErrors(r) : RefreshResumeFailed(r, e)
  \/ \E r \in Req, ok \in BOOLEAN : SetTokensDone(r, ok)
  \/ \E r \in Req : \E ok \in BOOLEAN : LogoutDone(r, ok)
  \/ Uninstall

Spec == Init /\ [][Next]_vars

\* Progress.  The timer of withTimeout (line 81) fires unless refresh()
\* settles first, so a started refresh operation settles; the job queue runs
\* the continuation of a handler whose awaited promise has settled; and, as
\* assumed of the environment, setTokens() settles and a request that
\* drainSuccess re-dispatched gets its response.  Nothing is assumed of
\* getTokens(), of logout(), of the callers or of uninstall.
RefreshSettles(r) == \E res \in RefreshResults(r) : RefreshSettle(r, res)

RefreshResumes(r) ==
  \/ RefreshResumeOk(r)
  \/ \E e \in CaughtErrors(r) : RefreshResumeTerminal(r, e)
  \/ \E e \in CaughtErrors(r) : RefreshResumeFailed(r, e)

SetTokensSettles(r) == \E ok \in BOOLEAN : SetTokensDone(r, ok)

RedispatchCompletes(r) ==
  /\ fl[r].sink = "entry"
  /\ \/ ResponseOk(r)
     \/ FailUnhooked(r)
     \/ \E kind \in FailureKinds : FailPassThrough(r, kind)
     \/ FailStaleRetry(r)
     \/ FailLoopGuard(r)
     \/ FailExpired(r)

Fairness ==
  \A r \in Req :
    /\ WF_vars(RefreshSettles(r))
    /\ WF_vars(RefreshResumes(r))
    /\ WF_vars(SetTokensSettles(r))
    /\ WF_vars(RedispatchCompletes(r))

\* The instance whose progress is stated: installed with maxRetries = 1, the
\* ceiling that two requests can reach, and a predicate that holds of the
\* rejections of refresh() alone.
LiveInit == Init /\ maxRetries = 1 /\ terminalErrors = {"refresh"}

LiveSpec == LiveInit /\ [][Next]_vars /\ Fairness

\* An instance whose option refresh posts to the token endpoint through the
\* instrumented client with skipAuthRefresh, installed with maxRetries = 1
\* and a predicate that is false of the rejections of refresh().
ViaClientInit ==
  Installed /\ viaClient = TRUE /\ maxRetries = 1 /\ terminalErrors = {"timeout", "contract"}

ViaClientSpec == ViaClientInit /\ [][Next]_vars


\* ------------------------------------------------------------ properties

\* The handler of a session-expired failure of r runs (lines 248-295).
ExpiredFailure(r) ==
  \/ FailPassThrough(r, "expired")
  \/ FailStaleRetry(r)
  \/ FailLoopGuard(r)
  \/ FailExpired(r)

\* What the dispatch of r that ends in this step yields to its issuer.
Delivered(r) == IF fl[r].sink = "entry" THEN entry'[r] ELSE out'[r]

RefreshErrors(k) == {RefreshErr(k), TimeoutErr(k), ContractErr(k)}

\* C1: the requests that fail with the session-expired condition while no
\* renewal is in flight and before any further refresh call is made cause one
\* refresh call together: once one of them has started the refresh, no other
\* of them starts one.
C1_OneRefreshPerBurst ==
  [][\A r \in Req :
       (h[r].pc = "getTokens" /\ h[r].served) => op'[r].st # "pending"]_vars

\* C2: at most one renewal operation is started and not yet settled.
C2_AtMostOneRenewal == Cardinality(Unsettled) <= 1

\* C3: a request that fails with the session-expired condition while renewal
\* k is in flight starts no refresh of its own; while the interceptors are
\* installed and its signal is not aborted, its queued entry is rejected with
\* the error of k or re-dispatched with the access token k returned.
C3_JoinsRenewalInFlight ==
  [][\A r \in Req :
       /\ (h[r].pc = "getTokens" /\ h[r].during # 0) => op'[r].st # "pending"
       /\ (g[r] # 0 /\ entry[r].k = "queued" /\ installed' /\ ~cfg[r].aborted)
            => /\ entry'[r].k \in {"queued", "err", "flying"}
               /\ entry'[r].k = "err" => entry'[r].e \in RefreshErrors(g[r])
               /\ entry'[r].k = "flying"
                    => cfg'[r].sentAccessToken = NewTok(g[r])
    ]_vars

\* C4: the marker authRefreshRetried is never cleared; a marked request that
\* fails again with the session-expired condition, the fast path not
\* applying, gets its own error back and nothing else changes; and only the
\* handler run that set the marker enqueues the request or starts a refresh.
C4_MarkedRequestNeverRenews ==
  [][\A r \in Req :
       cfg[r].authRefreshRetried =>
         /\ cfg'[r].authRefreshRetried
         /\ (ExpiredFailure(r) /\ ~StaleToken(cfg[r], currentAccessToken))
              => /\ fl'[r].st = "off"
                 /\ Delivered(r) = Res("err", ReqErr(r, "expired"))
                 /\ UNCHANGED <<refreshSubscribers, refreshInFlight, h, op, cfg,
                                refreshAttemptCount, currentAccessToken,
                                defaultHeader, storage>>
         /\ h[r].pc # "getTokens"
              => /\ h'[r].pc # "getTokens"
                 /\ entry'[r].k = "queued" => entry[r].k = "queued"
                 /\ op'[r].st = "pending" => op[r].st = "pending"
    ]_vars

C4_Witness ==
  \E r \in Req :
    /\ cfg[r].authRefreshRetried
    /\ fl[r].st = "off" /\ fl[r].sink = "entry" /\ fl[r].hooked
    /\ entry[r] = Res("err", ReqErr(r, "expired"))

\* C5: a session-expired failure of a request that was sent with an access
\* token other than the cached one, and was not yet retried with the current
\* one, re-dispatches it once with the header format(cached token), marks it
\* authTriedCurrent, starts no refresh and enqueues nothing.
C5_StaleTokenRetriedOnce ==
  [][\A r \in Req :
       ( /\ ExpiredFailure(r)
         /\ currentAccessToken # NoTok
         /\ cfg[r].sentAccessToken # NoTok
         /\ cfg[r].sentAccessToken # currentAccessToken
         /\ ~cfg[r].authTriedCurrent )
       => /\ fl'[r].st = "sent"
          /\ fl'[r].n = fl[r].n + 1
          /\ cfg'[r].hdr = headerFormat(currentAccessToken)
          /\ cfg'[r].hdr # <<"Bearer", cfg[r].sentAccessToken>>
          /\ cfg'[r].authTriedCurrent
          /\ UNCHANGED <<refreshSubscribers, refreshInFlight, h, op, entry, out,
                         refreshAttemptCount>>
    ]_vars

C5_Witness ==
  \E r \in Req :
    /\ cfg[r].authTriedCurrent
    /\ fl[r].st = "sent" /\ fl[r].n >= 2
    /\ currentAccessToken \notin {NoTok, InitTok}
    /\ cfg[r].sentAccessToken = currentAccessToken
    /\ cfg[r].hdr = headerFormat(currentAccessToken)
    /\ op[r].st = "none" /\ entry[r].k = "none"

\* C6: when the handler of a failure reaches the ceiling check with the
\* attempt counter equal to maxRetries and no renewal in flight, it goes to
\* terminal auth loss and no refresh call is made.
C6_CeilingLeadsToLoss ==
  [][\A r \in Req :
       ( /\ h[r].pc = "getTokens"
         /\ h'[r].pc # "getTokens"
         /\ refreshAttemptCount = maxRetries
         /\ refreshInFlight = 0 )
       => /\ h'[r].pc = "logout"
          /\ h'[r].err = ReqErr(r, "expired")
          /\ RefreshCalls' = RefreshCalls
          /\ op' = op
          /\ refreshSubscribers' = <<>>
          /\ currentAccessToken' = NoTok
          /\ defaultHeader' = NoHdr
    ]_vars

C6_Witness ==
  \E r \in Req :
    /\ h[r].pc = "logout"
    /\ h[r].err = ReqErr(r, "expired")
    /\ entry[r] = Res("err", ReqErr(r, "expired"))
    /\ fl[r].n = 1
    /\ RefreshCalls >= maxRetries

\* C7: from a terminal auth loss until a renewal started after it succeeds,
\* the default header is absent and the cached access token is empty.
C7_LossKeepsHeaderAbsent ==
  loss.on => (defaultHeader = NoHdr /\ currentAccessToken = NoTok)

\* C8: the step that enters terminal auth loss rejects every request in the
\* pending queue with the triggering error and leaves the queue empty; the
\* request that detected the loss is rejected with that error too.
C8_LossRejectsQueueWithTrigger ==
  [][\A r \in Req :
       /\ (h[r].pc # "logout" /\ h'[r].pc = "logout")
            => /\ h'[r].err \in (IF h[r].pc = "refresh" THEN CaughtErrors(r)
                                 ELSE {ReqErr(r, "expired")})
               /\ \A q \in Req : InQueue(q, refreshSubscribers)
                                   => entry'[q] = Res("err", h'[r].err)
               /\ \A q \in Req : entry'[q].k # "queued"
               /\ refreshSubscribers' = <<>>
       /\ (h[r].pc = "logout" /\ h'[r].pc # "logout")
            => /\ h'[r].pc = "lost"
               /\ Outcome(r)' = Res("err", h[r].err)
    ]_vars

C8_Witness ==
  \E r, q \in Req :
    /\ r # q
    /\ h[r].pc = "lost"
    /\ out[r].k = "err"
    /\ entry[q] = out[r]
    /\ refreshSubscribers = <<>>

\* C9: a session-expired failure that arrives after a terminal auth loss
\* starts no refresh call (nothing outside the interceptors replaces the
\* stored pair here).
C9_NoRefreshAfterLoss ==
  [][\A r \in Req :
       (h[r].pc = "getTokens" /\ h[r].afterLoss) => op'[r].st # "pending"]_vars

\* C10: when the stored-token read of a handler yields no refresh token (the
\* pair is absent, holds none, or the read fails), the handler goes to
\* terminal auth loss with the request's own error: no refresh call, and the
\* request is not enqueued.
C10_NoRefreshTokenIsLoss ==
  [][\A r \in Req :
       ( /\ h[r].pc = "getTokens"
         /\ h'[r].pc # "getTokens"
         /\ (storage.r = NoTok \/ GetTokensNoRefreshToken(r, FALSE)) )
       => /\ h'[r].pc = "logout"
          /\ h'[r].err = h[r].err
          /\ h[r].err = ReqErr(r, "expired")
          /\ RefreshCalls' = RefreshCalls
          /\ op' = op
          /\ entry'[r].k = "none"
          /\ ~InQueue(r, refreshSubscribers')
          /\ currentAccessToken' = NoTok
          /\ defaultHeader' = NoHdr
    ]_vars

C10_Witness ==
  \E r \in Req :
    /\ h[r].pc = "lost"
    /\ entry[r].k = "none"
    /\ out[r] = Res("err", ReqErr(r, "expired"))
    /\ op[r].st = "none"


\* C11: a refresh that times out settles with the RefreshTimeoutError and
\* clears the in-flight reference; when its handler resumes, every request
\* in the queue is rejected with that error and the queue is empty; starting
\* the operation added exactly 1 to the attempt counter, joining adds nothing.
C11_TimeoutRejectsQueue ==
  [][\A r \in Req :
       /\ (op[r].st = "pending" /\ op'[r].e = TimeoutErr(r))
            => /\ op'[r].st = "err"
               /\ refreshInFlight' = 0
               /\ refreshAttemptCount' = refreshAttemptCount
       /\ (h[r].pc = "refresh" /\ op[r].e = TimeoutErr(r) /\ h'[r].pc # "refresh")
            => /\ \A q \in Req : InQueue(q, refreshSubscribers)
                                   => entry'[q] = Res("err", TimeoutErr(r))
               /\ refreshSubscribers' = <<>>
               /\ h'[r].pc = "logout" => h'[r].err = TimeoutErr(r)
               /\ h'[r].pc # "logout" => out'[r] = Res("err", TimeoutErr(r))
       /\ (op[r].st = "none" /\ op'[r].st = "pending")
            => refreshAttemptCount' = refreshAttemptCount + 1
       /\ (entry[r].k = "none" /\ entry'[r].k = "queued" /\ op'[r].st = "none")
            => refreshAttemptCount' = refreshAttemptCount
    ]_vars

C11_Witness ==
  \E r, q \in Req :
    /\ r # q
    /\ op[r].st = "done"
    /\ refreshInFlight = 0
    /\ entry[r] = Res("err", TimeoutErr(r))
    /\ entry[q] = Res("err", TimeoutErr(r))
    /\ op[q].st = "none"

\* C12: when a renewal attempt fails with e, its handler enters terminal auth
\* loss if and only if isRefreshFailureTerminal(e); when it is false the
\* queue is drained with e, onRefreshFailed is called with e, e is thrown to
\* the triggering request, and the default header, the cached access token,
\* storage and logout are left alone.
C12_TerminalIffPredicate ==
  [][\A r \in Req : \A e \in CaughtErrors(r) :
       (h[r].pc = "refresh" /\ h'[r].pc # "refresh")
         => /\ (h'[r].pc = "logout") <=> (e[1] \in terminalErrors)
            /\ (e[1] \notin terminalErrors)
                 => /\ \A q \in Req : InQueue(q, refreshSubscribers)
                                        => entry'[q] = Res("err", e)
                    /\ refreshSubscribers' = <<>>
                    /\ notified'[r] = [n |-> notified[r].n + 1, k |-> "failed",
                                       tok |-> NoTokens, e |-> e]
                    /\ out'[r] = Res("err", e)
                    /\ \A x \in Req : h'[x].pc = "logout" => h[x].pc = "logout"
                    /\ UNCHANGED <<defaultHeader, currentAccessToken, storage>>
    ]_vars

C12_Witness ==
  \E r, q \in Req :
    /\ h[r].pc = "threw"
    /\ out[r].k = "err"
    /\ out[r].e[1] \notin terminalErrors
    /\ out[r].e[2] = r
    /\ notified[r].e = out[r].e
    /\ h[q].pc \in {"logout", "lost"}
    /\ notified[q].e[1] \in terminalErrors
    /\ notified[q].e[2] = q


\* C13: a refresh that fails clears the in-flight reference when it settles,
\* and the reference never names a settled operation; after a non-terminal
\* failure has been handled, the handler of a request that failed since,
\* resuming with a stored refresh token, no refresh in flight and the counter
\* below maxRetries, starts a new refresh call.
C13_RenewsAfterFailure ==
  [][\A r \in Req :
       /\ (op[r].st = "pending" /\ op'[r].st = "err") => refreshInFlight' = 0
       /\ refreshInFlight' = r => op'[r].st = "pending"
       /\ ( /\ h[r].pc = "getTokens"
            /\ h[r].afterFailure
            /\ h'[r].pc # "getTokens"
            /\ refreshInFlight = 0
            /\ refreshAttemptCount < maxRetries
            /\ storage.r # NoTok
            /\ ~GetTokensNoRefreshToken(r, FALSE) )
          => /\ op'[r].st = "pending"
             /\ RefreshCalls' = RefreshCalls + 1
             /\ refreshInFlight' = r
             /\ entry'[r].k = "queued"
             /\ h'[r].pc = "refresh"
    ]_vars

C13_Witness ==
  \E r, q \in Req :
    /\ h[r].pc = "threw"
    /\ h[q].pc = "refresh"
    /\ h[q].afterFailure
    /\ op[q].st = "pending"
    /\ refreshInFlight = q
    /\ installed


\* C14: when a refresh resolves with an access token A2, the default header
\* becomes format(A2) and the cached access token A2; the pair then persisted
\* holds A2 and the refresh token of the response, or, where the response
\* omits it, the refresh token R1 of the pair the handler had read.
C14_MergeKeepsOmittedToken ==
  [][\A r \in Req :
       /\ (h[r].pc = "refresh" /\ h'[r].pc = "setTokens")
            => /\ op[r].tok.a = NewTok(r)
               /\ defaultHeader' = <<"Bearer", NewTok(r)>>
               /\ currentAccessToken' = NewTok(r)
       /\ SetTokensDone(r, TRUE)
            => /\ storage'.a = op[r].tok.a
               /\ storage'.r = IF op[r].tok.r # NoTok THEN op[r].tok.r
                               ELSE h[r].stored.r
               /\ storage'.r # NoTok
               /\ notified'[r].tok = storage'
    ]_vars

C14_Witness ==
  \E r \in Req :
    /\ storage = Pair(NewTok(r), InitTok)
    /\ defaultHeader = headerFormat(NewTok(r))
    /\ currentAccessToken = NewTok(r)
    /\ notified[r].k = "refreshed"
    /\ op[r].st = "done"


\* C15: in the state right after uninstall the queue is empty, every entry
\* that was in it is rejected with the cancellation error, no entry is left
\* pending, the in-flight reference is empty and the interceptors are gone:
\* a request dispatched afterwards passes through neither of them.
C15_UninstallDrainsQueue ==
  [][/\ Uninstall
          => /\ ~installed'
             /\ refreshSubscribers' = <<>>
             /\ \A q \in Req : InQueue(q, refreshSubscribers)
                                 => entry'[q] = Res("err", UninstalledErr)
             /\ \A q \in Req : entry'[q].k # "queued"
             /\ refreshInFlight' = 0
     /\ \A r \in Req :
          (~installed /\ fl[r].st = "new" /\ fl'[r].st = "sent")
            => /\ ~fl'[r].hooked
               /\ cfg'[r].sentAccessToken = NoTok
    ]_vars

C15_Witness ==
  \E r, q \in Req :
    /\ ~installed
    /\ op[r].st = "pending"
    /\ entry[r] = Res("err", UninstalledErr)
    /\ entry[q] = Res("err", UninstalledErr)
    /\ r # q
    /\ refreshSubscribers = <<>>
    /\ refreshInFlight = 0


\* C16: a request with skipAuthRefresh is never given the credential header
\* or the sent-token marker, is dispatched once only, is never enqueued, never
\* starts a refresh and no handler suspends for it; whatever its failure is,
\* its own error is thrown to the caller and only the attempt counter changes.
C16_OptOutNeverRenews ==
  [][\A r \in Req :
       cfg'[r].skipAuthRefresh =>
         /\ cfg'[r].hdr = NoHdr
         /\ cfg'[r].sentAccessToken = NoTok
         /\ ~cfg'[r].authTriedCurrent
         /\ ~cfg'[r].authRefreshRetried
         /\ fl'[r].n = 1
         /\ entry'[r].k = "none"
         /\ ~InQueue(r, refreshSubscribers')
         /\ op'[r].st = "none"
         /\ h'[r].pc = "none"
         /\ \A kind \in FailureKinds :
              (fl[r].st = "sent" /\ FailPassThrough(r, kind))
                => /\ out'[r] = Res("err", ReqErr(r, kind))
                   /\ fl'[r].st = "off"
                   /\ UNCHANGED <<refreshSubscribers, refreshInFlight, op, h, cfg,
                                  entry, currentAccessToken, defaultHeader,
                                  storage, notified>>
         /\ (fl[r].st = "sent" /\ fl[r].hooked /\ fl'[r].st = "off"
             /\ out'[r].k = "err")
              => \E kind \in FailureKinds : FailPassThrough(r, kind)
    ]_vars

C16_Witness ==
  \E r \in Req :
    /\ cfg[r].skipAuthRefresh
    /\ fl[r].hooked
    /\ fl[r].st = "off"
    /\ out[r] = Res("err", ReqErr(r, "expired"))
    /\ currentAccessToken # NoTok
    /\ cfg[r].hdr = NoHdr


\* C17: the attempt counter is 0 right after a successful response has passed
\* the response interceptor and right after the success path of a renewal
\* (line 341); a refresh started from there is attempt number 1.
C17_CounterResetOnSuccess ==
  [][\A r \in Req :
       /\ (fl[r].st = "sent" /\ fl[r].hooked /\ Delivered(r) = Res("ok", NoErr))
            => refreshAttemptCount' = 0
       /\ (h[r].pc = "setTokens" /\ h'[r].pc # "setTokens")
            => refreshAttemptCount' = 0
       /\ (refreshAttemptCount = 0 /\ op[r].st = "none" /\ op'[r].st = "pending")
            => refreshAttemptCount' = 1
    ]_vars

C17_Witness ==
  \E r, q \in Req :
    /\ op[r].st = "pending"
    /\ refreshAttemptCount = 0
    /\ fl[q].hooked
    /\ out[q] = Res("ok", NoErr)
    /\ ~LostEver


\* C18: handling a failure of which isSessionExpired is false throws the
\* request's own error and resets the attempt counter to 0; the queue, the
\* in-flight reference, the cached token, the default header, storage and the
\* request's markers stay as they are, and nothing is retried or refreshed.
C18_NotExpiredOnlyResetsCounter ==
  [][\A r \in Req :
       (fl[r].st = "sent" /\ FailPassThrough(r, "other"))
         => /\ Delivered(r) = Res("err", <<"failed", r>>)
            /\ refreshAttemptCount' = 0
            /\ fl'[r] = [fl[r] EXCEPT !.st = "off"]
            /\ RefreshCalls' = RefreshCalls
            /\ UNCHANGED <<refreshSubscribers, refreshInFlight, currentAccessToken,
                           defaultHeader, storage, cfg, op, h, notified,
                           installed>>
    ]_vars

C18_Witness ==
  \E r, q \in Req :
    /\ ~cfg[r].skipAuthRefresh
    /\ fl[r].hooked
    /\ fl[r].st = "off"
    /\ out[r] = Res("err", <<"failed", r>>)
    /\ op[q].st = "pending"
    /\ refreshInFlight = q
    /\ refreshAttemptCount = 0
    /\ ~LostEver


\* The handler of r resumes from a refresh that resolved with no access token.
NoAccessTokenHandled(r) ==
  /\ h[r].pc = "refresh"
  /\ op[r].st = "ok"
  /\ op[r].tok.a = NoTok
  /\ h'[r].pc # "refresh"

\* C19 as stated: when the refresh resolves with no access token, the
\* default header and the cached access token are not changed, nothing is
\* written to storage, onRefreshed is not called and every queued request is
\* rejected with the contract error.
C19_NoAccessTokenChangesNothing ==
  [][\A r \in Req :
       NoAccessTokenHandled(r)
         => /\ UNCHANGED <<defaultHeader, currentAccessToken, storage>>
            /\ notified'[r].k # "refreshed"
            /\ \A q \in Req : InQueue(q, refreshSubscribers)
                                => entry'[q] = Res("err", ContractErr(r))
            /\ refreshSubscribers' = <<>>
    ]_vars

\* C19 amended: when the refresh resolves with no access token, the default
\* header and the cached access token are left unchanged if
\* isRefreshFailureTerminal is false of the contract error and cleared by
\* the terminal auth loss if it is true; in both cases nothing is written to
\* storage, onRefreshed is not called, no request is re-dispatched and every
\* queued request is rejected with the contract error.
C19_NoAccessTokenIsFailure ==
  [][\A r \in Req :
       NoAccessTokenHandled(r)
         => /\ IF "contract" \in terminalErrors
               THEN defaultHeader' = NoHdr /\ currentAccessToken' = NoTok
               ELSE UNCHANGED <<defaultHeader, currentAccessToken>>
            /\ storage' = storage
            /\ notified'[r] = [n |-> notified[r].n + 1, k |-> "failed",
                               tok |-> NoTokens, e |-> ContractErr(r)]
            /\ \A q \in Req : InQueue(q, refreshSubscribers)
                                => entry'[q] = Res("err", ContractErr(r))
            /\ refreshSubscribers' = <<>>
            /\ fl' = fl
    ]_vars

C19_Witness ==
  \E r, q \in Req :
    /\ r # q
    /\ h[r].pc = "threw"
    /\ out[r] = Res("err", ContractErr(r))
    /\ entry[q] = Res("err", ContractErr(r))
    /\ currentAccessToken = InitTok
    /\ storage = Pair(InitTok, InitTok)
    /\ notified[r].k = "failed"


\* C20: every refresh operation that was started and whose handler has
\* finished with it was followed by exactly one completion callback,
\* onRefreshed or onRefreshFailed.
C20_OneCompletionNotification ==
  \A r \in Req : op[r].st = "done" => notified[r].n = 1


\* C21: the promise of a pending entry is settled at most once: by the drain
\* that takes it from the queue (rejected with the drain error or as
\* cancelled, or re-dispatched) and then, for a re-dispatched entry, by the
\* result of that dispatch; a step that takes an entry from the queue leaves
\* the queue empty, and an entry that left the queue never returns to it and
\* is not touched by a later drain.
C21_EntriesSettleOnce ==
  [][\A r \in Req :
       /\ entry[r].k \in {"ok", "err"} => entry'[r] = entry[r]
       /\ entry[r].k = "flying"
            => /\ entry'[r].k \in {"flying", "ok", "err"}
               /\ entry'[r] # entry[r]
                    => /\ fl[r].st = "sent" /\ fl[r].sink = "entry"
                       /\ fl'[r].st = "off"
                       /\ entry'[r] = Delivered(r)
       /\ (entry[r].k = "queued" /\ entry'[r].k # "queued")
            => /\ InQueue(r, refreshSubscribers)
               /\ refreshSubscribers' = <<>>
               /\ entry'[r].k \in {"err", "flying"}
               /\ entry'[r].k = "flying" => (fl'[r].st = "sent" /\ fl'[r].n = fl[r].n + 1)
       /\ (entry[r].k # "queued" /\ entry'[r].k = "queued") => entry[r].k = "none"
       /\ InQueue(r, refreshSubscribers') <=> entry'[r].k = "queued"
       /\ (InQueue(r, refreshSubscribers) /\ ~InQueue(r, refreshSubscribers'))
            => refreshSubscribers' = <<>>
       /\ Cardinality({i \in 1..Len(refreshSubscribers') :
                         refreshSubscribers'[i] = r}) <= 1
    ]_vars

C21_Witness ==
  \E r, q \in Req :
    /\ entry[r] = Res("err", CanceledErr)
    /\ entry[q].k = "ok"
    /\ fl[q].n = 2
    /\ refreshSubscribers = <<>>
    /\ \E x \in Req : op[x].st = "done" /\ notified[x].k = "refreshed"


\* C22: a request placed in the pending queue is eventually settled: its
\* entry is rejected, or re-dispatched and given the result of the dispatch.
C22_QueuedEventuallySettled ==
  \A r \in Req : (entry[r].k = "queued") ~> (entry[r].k \in {"ok", "err"})

C22_Witness ==
  \E r, q \in Req :
    /\ r # q
    /\ h[r].pc \in {"threw", "logout", "lost"}
    /\ entry[q] = Res("err", TimeoutErr(r))
    /\ g[q] = 0
    /\ fl[q].n = 1
    /\ refreshSubscribers = <<>>


\* C23: drainSuccess(newToken) rejects a queued entry whose signal is aborted
\* with the cancellation error and does not dispatch it; it dispatches every
\* other queued entry once more, with the header format(newToken) and the
\* marker sentAccessToken = newToken; and what that dispatch ends with, the
\* response or the request's error, settles the entry of that request.
C23_DrainSuccessRedispatches ==
  [][\A r \in Req :
       /\ (h[r].pc = "setTokens" /\ h'[r].pc # "setTokens")
            => \A q \in Req :
                 InQueue(q, refreshSubscribers)
                   => IF cfg[q].aborted
                      THEN /\ entry'[q] = Res("err", CanceledErr)
                           /\ fl'[q] = fl[q]
                           /\ cfg'[q] = cfg[q]
                      ELSE /\ entry'[q] = Res("flying", NoErr)
                           /\ fl'[q].st = "sent"
                           /\ fl'[q].sink = "entry"
                           /\ fl'[q].n = fl[q].n + 1
                           /\ cfg'[q].hdr = <<"Bearer", op[r].tok.a>>
                           /\ cfg'[q].sentAccessToken = op[r].tok.a
                           /\ op[r].tok.a = NewTok(r)
       /\ (fl[r].sink = "entry" /\ fl[r].st = "sent" /\ fl'[r].st = "off")
            => /\ entry[r] = Res("flying", NoErr)
               /\ entry'[r] \in {Res("ok", NoErr), Res("err", <<"expired", r>>),
                                 Res("err", <<"failed", r>>)}
               /\ out' = out
       /\ (fl[r].sink = "entry" /\ fl'[r].n # fl[r].n)
            => /\ cfg[r].authRefreshRetried
               /\ fl'[r].sink = "entry"
    ]_vars

C23_Witness ==
  \E r, q \in Req :
    /\ cfg[r].aborted
    /\ entry[r] = Res("err", CanceledErr)
    /\ fl[r].n = 1 /\ fl[r].st = "off"
    /\ entry[q] = Res("flying", NoErr)
    /\ fl[q].n = 2 /\ fl[q].st = "sent"
    /\ cfg[q].sentAccessToken \notin {NoTok, InitTok}
    /\ cfg[q].hdr = headerFormat(cfg[q].sentAccessToken)


\* C24: once uninstall has returned, no refresh call is started and the
\* default header, storage and the pending queue do not change.
C24_UninstallStopsOrchestrator ==
  [][~installed
       => /\ RefreshCalls' = RefreshCalls
          /\ UNCHANGED <<defaultHeader, storage, refreshSubscribers>>
    ]_vars


\* The refresh call started for r was made with refresh token t, has resolved
\* with an access token and a new refresh token, and its handler has not yet
\* finished with the result.
SucceededWith(r, t) ==
  /\ h[r].pc \in {"refresh", "setTokens"}
  /\ op[r].st = "ok"
  /\ op[r].tok.a # NoTok
  /\ op[r].tok.r # NoTok
  /\ h[r].stored.r = t

\* C25: no refresh call is started with a refresh token that an earlier
\* refresh call was made with and succeeded, returning a new refresh token
\* (stated of the earlier calls whose handler still holds the result).
C25_RefreshTokenUsedOnce ==
  [][\A q \in Req :
       (op[q].st = "none" /\ op'[q].st = "pending")
         => \A r \in Req \ {q} : ~SucceededWith(r, h'[q].stored.r)
    ]_vars


\* A renewal succeeds (lines 329-330) or a terminal auth loss happens (lines
\* 218-222) in this step.
RenewedOrLost ==
  \E r \in Req :
    \/ h[r].pc = "refresh" /\ h'[r].pc \in {"setTokens", "logout"}
    \/ h[r].pc = "getTokens" /\ h'[r].pc = "logout"

\* C26: once a renewal has succeeded with access token A, the cached access
\* token is A and the default header format(A) until the next renewal
\* succeeds or a terminal auth loss happens; no other step, the initial load
\* of the cached token included, changes either of them.
C26_RenewedTokenStays ==
  [][currentAccessToken \notin {NoTok, InitTok}
       => /\ defaultHeader = headerFormat(currentAccessToken)
          /\ RenewedOrLost \/ UNCHANGED <<currentAccessToken, defaultHeader>>
    ]_vars


\* C27: the attempt counter is always between 0 and maxRetries; it grows only
\* by 1, only in the step that starts a refresh operation, and that step is
\* taken only with the counter below maxRetries.
C27_CounterWithinCeiling ==
  /\ [](refreshAttemptCount \in 0..maxRetries)
  /\ [][refreshAttemptCount' > refreshAttemptCount
          => /\ refreshAttemptCount' = refreshAttemptCount + 1
             /\ refreshAttemptCount < maxRetries
             /\ RefreshCalls' = RefreshCalls + 1
             /\ \E r \in Req : /\ h[r].pc = "getTokens"
                               /\ op[r].st = "none" /\ op'[r].st = "pending"
       ]_vars
  /\ [][RefreshCalls' # RefreshCalls
          => refreshAttemptCount' = refreshAttemptCount + 1]_vars

C27_Witness ==
  \E r, q \in Req :
    /\ r # q
    /\ maxRetries = 2
    /\ refreshAttemptCount = maxRetries
    /\ op[r].st = "pending"
    /\ op[q].st = "pending"
    /\ h[r].pc = "refresh" /\ h[q].pc = "refresh"


\* The requests whose refresh attempt failed with a rejection of refresh()
\* or a timeout and was handled as a non-terminal failure.
FailedAttempts ==
  {x \in Req : h[x].pc = "threw" /\ out[x].k = "err"
               /\ out[x].e \in {RefreshErr(x), TimeoutErr(x)}}

\* No response has been successful so far and no refresh has succeeded.
NoSuccessYet ==
  /\ \A y \in Req : out[y].k # "ok" /\ entry[y].k \notin {"ok", "flying"}
  /\ \A y \in Req : op[y].st \in {"none", "pending", "err"} \/ y \in FailedAttempts
  /\ ~LostEver

\* C28: after maxRetries failed refresh attempts with no successful response
\* so far, the handler of a session-expired failure that arrived after them
\* and reaches the ceiling check (a refresh token stored, no refresh in flight) goes to
\* terminal auth loss and starts no refresh, also when refresh() sends its
\* request through this client with skipAuthRefresh.
C28_FailedAttemptsReachCeiling ==
  [][\A q \in Req :
       ( /\ Cardinality(FailedAttempts) >= maxRetries
         /\ NoSuccessYet
         /\ h[q].pc = "getTokens"
         /\ h[q].afterFailure
         /\ h'[q].pc # "getTokens"
         /\ refreshInFlight = 0
         /\ storage.r # NoTok
         /\ h'[q].pc # "logout" \/ h'[q].err = h[q].err )
       => /\ h'[q].pc = "logout"
          /\ op'[q].st = "none"
    ]_vars


\* C29: a request is dispatched at most three times: when it is sent, at
\* most once by the stale-token fast path, which requires the marker
\* authTriedCurrent unset and sets it, and at most once by drainSuccess, which
\* takes its one queued entry; with both markers set, a session-expired
\* failure ends the request with its error.
C29_AtMostThreeDispatches ==
  /\ [](\A r \in Req : fl[r].n \in 0..3)
  /\ [][\A r \in Req :
          /\ fl'[r].n # fl[r].n
               => /\ fl'[r].n = fl[r].n + 1
                  /\ fl'[r].st = "sent"
                  /\ \/ fl[r].st = "new"
                     \/ /\ fl[r].st = "sent"
                        /\ ~cfg[r].authTriedCurrent
                        /\ cfg'[r].authTriedCurrent
                        /\ entry'[r] = entry[r]
                     \/ /\ fl[r].st = "off"
                        /\ cfg[r].authRefreshRetried
                        /\ entry[r].k = "queued"
                        /\ entry'[r].k = "flying"
          /\ cfg[r].authTriedCurrent => cfg'[r].authTriedCurrent
          /\ (ExpiredFailure(r) /\ cfg[r].authTriedCurrent
              /\ cfg[r].authRefreshRetried)
               => /\ fl'[r].st = "off"
                  /\ Delivered(r) = Res("err", <<"expired", r>>)
       ]_vars

C29_Witness ==
  \E r \in Req :
    /\ fl[r].n = 3
    /\ fl[r].st = "off"
    /\ fl[r].hooked
    /\ cfg[r].authTriedCurrent
    /\ cfg[r].authRefreshRetried
    /\ entry[r] = Res("err", <<"expired", r>>)


\* The fast path has re-sent request r in this step.
RetriedWithCurrent(r) ==
  fl[r].st = "sent" /\ fl'[r].st = "sent" /\ fl'[r].n = fl[r].n + 1

\* C30 as stated: the fast path does not set the marker authRefreshRetried; a
\* request it has retried that fails again with the session-expired
\* condition does not take it again and enters the renewal flow: the marker
\* is set, the request is enqueued and a refresh is started or joined.
C30_RetriedRequestRenews ==
  [][\A r \in Req :
       /\ RetriedWithCurrent(r)
            => cfg'[r].authRefreshRetried = cfg[r].authRefreshRetried
       /\ (cfg[r].authTriedCurrent /\ ExpiredFailure(r))
            => /\ ~RetriedWithCurrent(r)
               /\ h'[r].pc = "getTokens"
               /\ cfg'[r].authRefreshRetried
       /\ (cfg[r].authTriedCurrent /\ h[r].pc = "getTokens"
           /\ h'[r].pc # "getTokens")
            => /\ entry'[r].k = "queued"
               /\ h'[r].pc \in {"joined", "refresh"}
    ]_vars

\* C30 amended: the fast path leaves the marker authRefreshRetried as it is;
\* a request it has retried that fails again with the session-expired
\* condition does not take it again: if the marker is set the failure is
\* thrown by the loop guard, and if it is unset the marker is set and the
\* stored tokens are read, after which the request goes to terminal auth loss
\* (no refresh token, or no refresh in flight and the ceiling reached) or is
\* enqueued and joins the refresh in flight or starts one; a request enters
\* this flow only with the marker unset, hence once.
C30_RetriedRequestRenewsOnce ==
  [][\A r \in Req :
       /\ RetriedWithCurrent(r)
            => /\ cfg'[r].authRefreshRetried = cfg[r].authRefreshRetried
               /\ cfg'[r].authTriedCurrent /\ ~cfg[r].authTriedCurrent
               /\ UNCHANGED <<h, op, entry, refreshSubscribers, refreshInFlight>>
       /\ (cfg[r].authTriedCurrent /\ ExpiredFailure(r))
            => /\ ~RetriedWithCurrent(r)
               /\ fl'[r].st = "off"
               /\ IF cfg[r].authRefreshRetried
                  THEN /\ Delivered(r) = Res("err", <<"expired", r>>)
                       /\ UNCHANGED <<h, op, cfg, refreshSubscribers>>
                  ELSE /\ h'[r].pc = "getTokens"
                       /\ cfg'[r].authRefreshRetried
                       /\ UNCHANGED <<op, entry, out, refreshSubscribers>>
       /\ (cfg[r].authTriedCurrent /\ h[r].pc = "getTokens"
           /\ h'[r].pc # "getTokens")
            => \/ /\ h'[r].pc = "logout"
                  /\ op'[r].st = "none"
                  /\ \/ storage.r = NoTok
                     \/ GetTokensNoRefreshToken(r, FALSE)
                     \/ refreshInFlight = 0 /\ refreshAttemptCount >= maxRetries
               \/ /\ storage.r # NoTok
                  /\ entry'[r].k = "queued"
                  /\ InQueue(r, refreshSubscribers')
                  /\ IF refreshInFlight # 0
                     THEN h'[r].pc = "joined" /\ op' = op
                     ELSE /\ h'[r].pc = "refresh" /\ op'[r].st = "pending"
                          /\ refreshAttemptCount < maxRetries
       /\ (h[r].pc # "getTokens" /\ h'[r].pc = "getTokens")
            => /\ ~cfg[r].authRefreshRetried
               /\ cfg'[r].authRefreshRetried
    ]_vars

C30_Witness ==
  \E r \in Req :
    /\ cfg[r].authTriedCurrent
    /\ cfg[r].authRefreshRetried
    /\ fl[r].n = 2
    /\ fl[r].st = "off"
    /\ entry[r].k = "queued"
    /\ h[r].pc = "refresh"
    /\ op[r].st = "pending"

\* C31: the step that enters terminal auth loss, which ends by calling
\* logout, has drained the queue with the triggering error, called
\* onRefreshFailed with it and removed the default header; when logout has
\* settled, resolved or rejected, the detecting request is rejected with the
\* triggering error and nothing else changes.
C31_LogoutLastAndSwallowed ==
  [][\A r \in Req :
       /\ (h[r].pc # "logout" /\ h'[r].pc = "logout")
            => /\ \A q \in Req : InQueue(q, refreshSubscribers)
                                   => entry'[q] = Res("err", h'[r].err)
               /\ refreshSubscribers' = <<>>
               /\ notified'[r] = onRefreshFailed(notified[r], h'[r].err)
               /\ defaultHeader' = NoHdr
               /\ out'[r] = out[r]
       /\ \A ok \in BOOLEAN :
            LogoutDone(r, ok)
              => /\ out'[r] = Res("err", h[r].err)
                 /\ out'[r].e = notified[r].e
                 /\ out'[r].e # LogoutErr
                 /\ UNCHANGED <<entry, refreshSubscribers, notified,
                                defaultHeader, currentAccessToken, storage,
                                refreshAttemptCount, refreshInFlight, op>>
    ]_vars

C31_Witness ==
  \E r, q \in Req :
    /\ r # q
    /\ h[r].pc = "lost"
    /\ notified[r].k = "failed"
    /\ out[r] = Res("err", notified[r].e)
    /\ entry[q] = Res("err", notified[r].e)
    /\ defaultHeader = NoHdr
    /\ \A x \in Req : h[x].pc # "logout"

\* The effects of a setTokens that rejected, common to both statements of
\* C32: the header and the cached token, set to the new token when the
\* handler of r resumed from the refresh, and storage stay as they are; the
\* counter is 0; no handler enters terminal auth loss, no entry is rejected
\* by drainFailure, no callback is called, and the handler returns.
PersistFailureIsSuccess(r) ==
  /\ UNCHANGED <<defaultHeader, currentAccessToken, storage, notified, out>>
  /\ refreshAttemptCount' = 0
  /\ refreshSubscribers' = <<>>
  /\ h'[r].pc = "joined"
  /\ \A x \in Req : h'[x].pc \in {"logout", "threw"} => h'[x] = h[x]
  /\ \A q \in Req : entry'[q].k = "err"
                       => entry'[q] \in {entry[q], Res("err", CanceledErr)}

\* The handler of r resumes from a refresh that resolved with an access
\* token: the default header and the cached token hold it (lines 329-330).
RenewalApplied(r) ==
  (h[r].pc = "refresh" /\ h'[r].pc = "setTokens")
    => /\ op[r].tok.a = NewTok(r)
       /\ defaultHeader' = headerFormat(NewTok(r))
       /\ currentAccessToken' = NewTok(r)

\* C32: when setTokens rejects after a refresh that succeeded, the default
\* header and the cached token, set to the new token before the write, are
\* not changed, the counter is reset to 0, every queued request whose signal
\* is not aborted is dispatched once more with the new token, one whose
\* signal is aborted is rejected with the cancellation error, and neither
\* terminal auth loss nor drainFailure happens.
C32_PersistFailureIsSuccess ==
  [][\A r \in Req :
       /\ RenewalApplied(r)
       /\ SetTokensDone(r, FALSE)
            => /\ PersistFailureIsSuccess(r)
               /\ \A q \in Req :
                    InQueue(q, refreshSubscribers)
                      => IF cfg[q].aborted
                         THEN /\ entry'[q] = Res("err", CanceledErr)
                              /\ fl'[q] = fl[q]
                         ELSE /\ entry'[q] = Res("flying", NoErr)
                              /\ fl'[q].st = "sent"
                              /\ fl'[q].n = fl[q].n + 1
                              /\ cfg'[q].hdr = headerFormat(op[r].tok.a)
                              /\ cfg'[q].sentAccessToken = op[r].tok.a
    ]_vars

\* C32 as stated: when setTokens rejects after a refresh that succeeded,
\* every queued request is dispatched once more with the new token.
C32_PersistFailureRedispatchesAll ==
  [][\A r \in Req :
       /\ RenewalApplied(r)
       /\ SetTokensDone(r, FALSE)
            => /\ PersistFailureIsSuccess(r)
               /\ \A q \in Req :
                    InQueue(q, refreshSubscribers)
                      => /\ entry'[q] = Res("flying", NoErr)
                         /\ fl'[q].st = "sent"
                         /\ fl'[q].n = fl[q].n + 1
                         /\ cfg'[q].hdr = headerFormat(op[r].tok.a)
                         /\ cfg'[q].sentAccessToken = op[r].tok.a
    ]_vars

C32_Witness ==
  \E r, q \in Req :
    /\ r # q
    /\ h[r].pc = "joined"
    /\ op[r].st = "done"
    /\ notified[r].n = 0
    /\ storage = Pair(InitTok, InitTok)
    /\ defaultHeader = headerFormat(NewTok(r))
    /\ currentAccessToken = NewTok(r)
    /\ refreshAttemptCount = 0
    /\ entry[r] = Res("flying", NoErr)
    /\ cfg[r].hdr = headerFormat(NewTok(r))
    /\ cfg[q].aborted
    /\ entry[q] = Res("err", CanceledErr)
    /\ ~LostEver

=============================================================================
